---- MODULE Spec2Model ----
(***************************************************************************)
(* A model of the personal budget planner: the recurrence predicate, the   *)
(* monthly forecast aggregation, the FinancialState container, the         *)
(* handlers of the entries screen that mutate it, and the application      *)
(* that loads the state from its file and saves it there.                  *)
(*                                                                         *)
(* Amounts are Decimal values in the program; they are modelled as         *)
(* integers (an amount in cents), on which Decimal addition is exact.      *)
(***************************************************************************)
EXTENDS Integers, Sequences, FiniteSets, TLC

VARIABLES entries, categories, modal, call, ret, currency_code, file

vars == <<entries, categories, modal, call, ret, currency_code, file>>

(***************************************************************************)
(* Bounds of the model.                                                    *)
(***************************************************************************)
MaxYear == 2025
MaxEvery == 5
MaxEntries == 2
MaxN == 3
MaxHeld == 3

Years == 2023..MaxYear
Months == 1..12

(***************************************************************************)
(* Results of calls: a returned value, or the exception raised.            *)
(***************************************************************************)
Ok(v) == [err |-> "none", value |-> v]
Raise(e) == [err |-> e, value |-> "none"]

(***************************************************************************)
(* datetime.date                                                           *)
(***************************************************************************)
IsLeap(y) == (y % 4 = 0 /\ y % 100 # 0) \/ y % 400 = 0

DaysInMonth(y, m) ==
    IF m = 2 THEN (IF IsLeap(y) THEN 29 ELSE 28)
    ELSE IF m \in {4, 6, 9, 11} THEN 30 ELSE 31

Date(y, m, d) == [year |-> y, month |-> m, day |-> d]

NoDate == [year |-> 0, month |-> 0, day |-> 0]

\* The calendar dates of the model: the first and the last days of a month.
Dates ==
    {Date(y, m, d) : y \in Years, m \in Months, d \in {1, 15}}
        \cup {dt \in {Date(y, m, 31) : y \in Years, m \in Months} :
                dt.day <= DaysInMonth(dt.year, dt.month)}

\* date.replace(month=m): ValueError when m is no month or the day does not
\* exist in month m of the same year.
date_replace_month(d, m) ==
    IF m \in 1..12 /\ d.day <= DaysInMonth(d.year, m)
    THEN Ok(Date(d.year, m, d.day))
    ELSE Raise("ValueError")

(***************************************************************************)
(* Recurrence                                                              *)
(***************************************************************************)
RecurrenceType == {"ONE_TIME", "MONTHLY", "ANNUAL"}

EntryType == {"INCOME", "EXPENSE"}

Recurrence(start, type, every, end) ==
    [start_date |-> start, type |-> type, every |-> every, end_date |-> end]

\* Python's a % b for b # 0: the result takes the sign of b.
PyMod(a, b) == IF b > 0 THEN a % b ELSE 0 - ((0 - a) % (0 - b))

MutAnnualAsOneTime(self, month_date) ==
    IF self.type = "MONTHLY"
    THEN IF self.every = 0 THEN Raise("ZeroDivisionError")
         ELSE Ok(PyMod(month_date.month, self.every)
                    = PyMod(self.start_date.month, self.every))
    ELSE Ok(self.start_date.month = month_date.month
            /\ self.start_date.year = month_date.year)

MutOneTimeIgnoresYear(self, month_date) ==
    IF self.type = "MONTHLY"
    THEN IF self.every = 0 THEN Raise("ZeroDivisionError")
         ELSE Ok(PyMod(month_date.month, self.every)
                    = PyMod(self.start_date.month, self.every))
    ELSE Ok(self.start_date.month = month_date.month)

MutMonthlyNoStartMod(self, month_date) ==
    IF self.type = "MONTHLY"
    THEN IF self.every = 0 THEN Raise("ZeroDivisionError")
         ELSE Ok(PyMod(month_date.month, self.every) = self.start_date.month)
    ELSE IF self.type = "ONE_TIME"
    THEN Ok(self.start_date.month = month_date.month
            /\ self.start_date.year = month_date.year)
    ELSE Ok(self.start_date.month = month_date.month)

\* A predicate that holds only from the month of start_date up to the month
\* of end_date.
MutWithinDateRange(self, month_date) ==
    LET index(d) == d.year * 12 + d.month
        within == /\ index(self.start_date) <= index(month_date)
                  /\ \/ self.end_date = [year |-> 0, month |-> 0, day |-> 0]
                     \/ index(month_date) <= index(self.end_date)
    IN  IF self.type = "ONE_TIME"
        THEN Ok(self.start_date.month = month_date.month
                /\ self.start_date.year = month_date.year)
        ELSE IF self.type = "MONTHLY"
        THEN IF self.every = 0 THEN Raise("ZeroDivisionError")
             ELSE Ok(within /\ PyMod(month_date.month, self.every)
                                  = PyMod(self.start_date.month, self.every))
        ELSE IF self.type = "ANNUAL"
        THEN Ok(within /\ self.start_date.month = month_date.month)
        ELSE Raise("ValueError")

will_occur_on_month(self, month_date) ==
    IF self.type = "ONE_TIME"
    THEN Ok(self.start_date.month = month_date.month
            /\ self.start_date.year = month_date.year)
    ELSE IF self.type = "MONTHLY"
    THEN IF self.every = 0 THEN Raise("ZeroDivisionError")
         ELSE Ok(PyMod(month_date.month, self.every)
                    = PyMod(self.start_date.month, self.every))
    ELSE IF self.type = "ANNUAL"
    THEN Ok(self.start_date.month = month_date.month)
    ELSE Raise("ValueError")

(***************************************************************************)
(* FinancialEntry                                                          *)
(***************************************************************************)
FinancialEntry(amount, description, type, recurrence, category) ==
    [amount |-> amount, description |-> description, type |-> type,
     recurrence |-> recurrence, category |-> category]

\* An entry that is taken to occur in every month.
MutEntryAlwaysOccurs(self, month) == Ok(TRUE)

entry_will_occur_on_month(self, month) ==
    will_occur_on_month(self.recurrence, month)

(***************************************************************************)
(* MonthlyForecast.  A dict is a function from its keys; defaultdict       *)
(* supplies Decimal() = 0 for a key that is not there yet.                 *)
(***************************************************************************)
EmptyDict == <<>>

MutDictAddOverwrites(forecast, key, amount) ==
    IF key \in DOMAIN forecast
    THEN [forecast EXCEPT ![key] = amount]
    ELSE forecast @@ (key :> amount)

DictAdd(forecast, key, amount) ==
    IF key \in DOMAIN forecast
    THEN [forecast EXCEPT ![key] = @ + amount]
    ELSE forecast @@ (key :> (0 + amount))

\* for entry in entries[i..]: if entry.will_occur_on_month(month):
\*     forecast[entry.category] += entry.amount
RECURSIVE BuildLoop(_, _, _, _)
BuildLoop(entry_list, month, i, forecast) ==
    IF i > Len(entry_list) THEN Ok(forecast)
    ELSE LET entry == entry_list[i]
             occurs == entry_will_occur_on_month(entry, month)
         IN  IF occurs.err # "none" THEN Raise(occurs.err)
             ELSE IF occurs.value
             THEN BuildLoop(entry_list, month, i + 1,
                            DictAdd(forecast, entry.category, entry.amount))
             ELSE BuildLoop(entry_list, month, i + 1, forecast)

\* A builder that also keeps, with amount 0, the category of every entry
\* that does not occur in the month.
MutBuildKeepsEveryCategory(entry_list, month) ==
    LET r == BuildLoop(entry_list, month, 1, EmptyDict)
        cs == {entry_list[i].category : i \in 1..Len(entry_list)}
    IN  IF r.err # "none" THEN r
        ELSE Ok([c \in (DOMAIN r.value) \cup cs |->
                    IF c \in DOMAIN r.value THEN r.value[c] ELSE 0])

build_forecast_by_category_for_month(entry_list, month) ==
    BuildLoop(entry_list, month, 1, EmptyDict)

MonthlyForecast(month, expenses_by_category, income_by_category) ==
    [month |-> month, expenses_by_category |-> expenses_by_category,
     income_by_category |-> income_by_category]

from_financial_entries(month, income_entries, expenses_entries) ==
    LET expenses == build_forecast_by_category_for_month(expenses_entries, month)
        income == build_forecast_by_category_for_month(income_entries, month)
    IN  IF expenses.err # "none" THEN Raise(expenses.err)
        ELSE IF income.err # "none" THEN Raise(income.err)
        ELSE Ok(MonthlyForecast(month, expenses.value, income.value))

\* sum(d.values()), started at 0.
RECURSIVE SumValues(_, _)
SumValues(d, keys) ==
    IF keys = {} THEN 0
    ELSE LET k == CHOOSE x \in keys : TRUE
         IN  d[k] + SumValues(d, keys \ {k})

MutBalanceAddsExpenses(self) ==
    LET income == SumValues(self.income_by_category,
                            DOMAIN self.income_by_category)
        expenses == SumValues(self.expenses_by_category,
                              DOMAIN self.expenses_by_category)
    IN  [total_income |-> income, total_expenses |-> expenses,
         balance |-> income + expenses]

get_balance(self) ==
    LET income == SumValues(self.income_by_category,
                            DOMAIN self.income_by_category)
        expenses == SumValues(self.expenses_by_category,
                              DOMAIN self.expenses_by_category)
    IN  [total_income |-> income, total_expenses |-> expenses,
         balance |-> income - expenses]

(***************************************************************************)
(* FinancialState after construction: no entries, no categories.           *)
(***************************************************************************)
NoModal == [handler |-> "none", cursor_row |-> 0]

\* call: the invocation about to run, when its inputs were drawn beforehand.
NoCall == [op |-> "none", arg |-> "none"]

NoRet == [op |-> "none", arg |-> "none", value |-> "none", err |-> "none"]

Return(op, arg, r) == [op |-> op, arg |-> arg, value |-> r.value, err |-> r.err]

\* The state file when it does not exist.
NoFile == [exists |-> FALSE, content |-> "none", mode |-> "none"]

\* The currency of a FinancialState built without one.
DefaultCurrencyCode == "EUR"

EmptyState ==
    /\ entries = [t \in EntryType |-> <<>>]
    /\ categories = [t \in EntryType |-> {}]

Init ==
    /\ EmptyState
    /\ modal = NoModal
    /\ call = NoCall
    /\ ret = NoRet
    /\ currency_code = DefaultCurrencyCode
    /\ file = NoFile

(***************************************************************************)
(* FinancialState: the read operations.                                    *)
(***************************************************************************)
income_entries == entries["INCOME"]

expense_entries == entries["EXPENSE"]

MutForecastDropsLastExpense(month) ==
    from_financial_entries(month, income_entries,
        IF expense_entries = <<>> THEN <<>>
        ELSE SubSeq(expense_entries, 1, Len(expense_entries) - 1))

get_monthly_forecast(month) ==
    from_financial_entries(month, income_entries, expense_entries)

\* f"{month.year}-{month.month}"
MonthKey(month) == ToString(month.year) \o "-" \o ToString(month.month)

\* d[key] = value on a dict kept as the sequence of its items in insertion
\* order: an existing key keeps its place.
DictSet(d, key, value) ==
    IF \E i \in 1..Len(d) : d[i].key = key
    THEN [i \in 1..Len(d) |->
            IF d[i].key = key THEN [key |-> key, value |-> value] ELSE d[i]]
    ELSE Append(d, [key |-> key, value |-> value])

\* for i in range(n), from i on.
RECURSIVE NextMonthsLoop(_, _, _, _)
NextMonthsLoop(today, n, i, forecast) ==
    IF i >= n THEN Ok(forecast)
    ELSE LET month == date_replace_month(today, today.month + i)
         IN  IF month.err # "none" THEN Raise(month.err)
             ELSE LET f == get_monthly_forecast(month.value)
                  IN  IF f.err # "none" THEN Raise(f.err)
                      ELSE NextMonthsLoop(today, n, i + 1,
                               DictSet(forecast, MonthKey(month.value),
                                       f.value))

\* The method without its check of n.
MutNoCheckOfN(today, n) == NextMonthsLoop(today, n, 0, <<>>)

get_forecast_for_next_n_months(today, n) ==
    IF ~(n > 0) THEN Raise("AssertionError")
    ELSE NextMonthsLoop(today, n, 0, <<>>)

\* get_entries_for_month(month): the income entries that occur in the
\* month, in the order of the list, then the expense entries that occur in
\* it, in the order of the list.
RECURSIVE EntriesLoop(_, _, _, _)
EntriesLoop(entry_list, month, i, found) ==
    IF i > Len(entry_list) THEN Ok(found)
    ELSE LET entry == entry_list[i]
             occurs == entry_will_occur_on_month(entry, month)
         IN  IF occurs.err # "none" THEN Raise(occurs.err)
             ELSE EntriesLoop(entry_list, month, i + 1,
                              IF occurs.value THEN Append(found, entry)
                              ELSE found)

get_entries_for_month(month) ==
    LET incomes == EntriesLoop(income_entries, month, 1, <<>>)
    IN  IF incomes.err # "none" THEN incomes
        ELSE EntriesLoop(expense_entries, month, 1, incomes.value)

(***************************************************************************)
(* The inputs of the model.                                                *)
(***************************************************************************)
Amounts == {100, 250}

Categories == {"Food", "Rent"}

FormCategories == {"Food", "Fun"}

AllCategories == Categories \cup FormCategories

ApiRecurrences ==
    {Recurrence(Date(2024, 2, 1), "MONTHLY", 2, NoDate),
     Recurrence(Date(2024, 3, 15), "ONE_TIME", 1, NoDate)}

ApiEntries(type) ==
    {FinancialEntry(a, "entry", type, r, c) :
        a \in Amounts, r \in ApiRecurrences, c \in Categories}

QueryMonths == {Date(y, m, 1) : y \in 2024..2025, m \in Months}

Todays == {d \in Dates : d.year = 2024 /\ d.day \in {15, 31}}

BoundedSeqs(S, n) == UNION {[1..k -> S] : k \in 0..n}

CategoriesOf(entry_list) == {entry_list[i].category : i \in 1..Len(entry_list)}

(***************************************************************************)
(* The read operations as steps.                                           *)
(***************************************************************************)
\* A read that empties the expense list it has just summed.
MutReadConsumesExpenses(month) ==
    /\ ret' = Return("get_monthly_forecast", [month |-> month],
                     get_monthly_forecast(month))
    /\ entries' = [entries EXCEPT !["EXPENSE"] = <<>>]
    /\ UNCHANGED <<categories, modal>>
    /\ UNCHANGED <<currency_code, file>>

DoGetMonthlyForecast(month) ==
    /\ ret' = Return("get_monthly_forecast", [month |-> month],
                     get_monthly_forecast(month))
    /\ UNCHANGED <<entries, categories, modal>>
    /\ UNCHANGED <<currency_code, file>>

\* state.get_monthly_forecast(month).get_balance()
DoGetBalance(month) ==
    /\ LET f == get_monthly_forecast(month)
       IN  ret' = IF f.err # "none"
                  THEN Return("get_monthly_forecast", [month |-> month], f)
                  ELSE Return("get_balance", [self |-> f.value],
                              Ok(get_balance(f.value)))
    /\ UNCHANGED <<entries, categories, modal>>
    /\ UNCHANGED <<currency_code, file>>

DoGetForecastForNextNMonths(today, n) ==
    /\ ret' = Return("get_forecast_for_next_n_months",
                     [today |-> today, n |-> n],
                     get_forecast_for_next_n_months(today, n))
    /\ UNCHANGED <<entries, categories, modal>>
    /\ UNCHANGED <<currency_code, file>>

DoGetEntriesForMonth(month) ==
    /\ ret' = Return("get_entries_for_month", [month |-> month],
                     get_entries_for_month(month))
    /\ UNCHANGED <<entries, categories, modal>>
    /\ UNCHANGED <<currency_code, file>>

(***************************************************************************)
(* The forecasts of every pair of entry lists of the model.                *)
(***************************************************************************)
ForecastCalls ==
    {[op |-> "get_monthly_forecast", arg |-> [month |-> m]] : m \in QueryMonths}
    \cup {[op |-> "get_balance", arg |-> [month |-> m]] : m \in QueryMonths}
    \cup {[op |-> "get_entries_for_month", arg |-> [month |-> m]] :
              m \in QueryMonths}
    \cup {[op |-> "get_forecast_for_next_n_months",
           arg |-> [today |-> t, n |-> n]] :
              t \in Todays, n \in (0 - 1)..MaxN}

InitForecast ==
    /\ \E inc \in BoundedSeqs(ApiEntries("INCOME"), MaxEntries),
          exp \in BoundedSeqs(ApiEntries("EXPENSE"), MaxEntries) :
          /\ Len(inc) + Len(exp) <= MaxEntries
          /\ entries = [t \in EntryType |-> IF t = "INCOME" THEN inc ELSE exp]
          /\ categories = [t \in EntryType |->
                             CategoriesOf(IF t = "INCOME" THEN inc ELSE exp)]
    /\ modal = NoModal
    /\ ret = NoRet
    /\ call \in ForecastCalls
    /\ currency_code = DefaultCurrencyCode
    /\ file = NoFile

CallGetMonthlyForecast ==
    /\ call.op = "get_monthly_forecast"
    /\ DoGetMonthlyForecast(call.arg.month)
    /\ call' = NoCall

CallGetBalance ==
    /\ call.op = "get_balance"
    /\ DoGetBalance(call.arg.month)
    /\ call' = NoCall

CallGetForecastForNextNMonths ==
    /\ call.op = "get_forecast_for_next_n_months"
    /\ DoGetForecastForNextNMonths(call.arg.today, call.arg.n)
    /\ call' = NoCall

CallGetEntriesForMonth ==
    /\ call.op = "get_entries_for_month"
    /\ DoGetEntriesForMonth(call.arg.month)
    /\ call' = NoCall

NextForecast ==
    \/ CallGetMonthlyForecast
    \/ CallGetBalance
    \/ CallGetForecastForNextNMonths
    \/ CallGetEntriesForMonth

SpecForecast == InitForecast /\ [][NextForecast]_vars

\* The calendar month k months after the month of date d.
AddMonths(d, k) ==
    LET total == d.year * 12 + (d.month - 1) + k
    IN  [year |-> total \div 12, month |-> (total % 12) + 1]

\* C1: for every current date and every n >= 1,
\* get_forecast_for_next_n_months(n) completes and returns exactly n
\* forecasts, the i-th being the forecast of the calendar month i - 1 months
\* after the current month (the month after December of year Y is January
\* of year Y + 1).
C1_NextNMonthsCalendar ==
    (ret.op = "get_forecast_for_next_n_months" /\ ret.arg.n >= 1)
    => /\ ret.err = "none"
       /\ Len(ret.value) = ret.arg.n
       /\ \A i \in 1..ret.arg.n :
            LET want == AddMonths(ret.arg.today, i - 1)
            IN  /\ ret.value[i].value.month.year = want.year
                /\ ret.value[i].value.month.month = want.month

\* The entry occurs in the month: will_occur_on_month returns true.
OccursIn(entry, month) ==
    LET occurs == will_occur_on_month(entry.recurrence, month)
    IN  occurs.err = "none" /\ occurs.value

\* The indices of the entries of category c that occur in the month.
Occurring(entry_list, c, month) ==
    {i \in 1..Len(entry_list) :
        entry_list[i].category = c /\ OccursIn(entry_list[i], month)}

RECURSIVE SumAmounts(_, _)
SumAmounts(entry_list, idx) ==
    IF idx = {} THEN 0
    ELSE LET i == CHOOSE x \in idx : TRUE
         IN  entry_list[i].amount + SumAmounts(entry_list, idx \ {i})

\* The value a mapping holds for c, 0 when c is not a key.
Lookup(d, c) == IF c \in DOMAIN d THEN d[c] ELSE 0

\* The forecast f of the month holds, per category, the sum of the amounts
\* of the entries of that category and type that occur in the month.
SumsByCategory(f, month, incomes, expenses) ==
    /\ f.month = month
    /\ DOMAIN f.income_by_category \subseteq AllCategories
    /\ DOMAIN f.expenses_by_category \subseteq AllCategories
    /\ \A c \in AllCategories :
        /\ Lookup(f.income_by_category, c)
             = SumAmounts(incomes, Occurring(incomes, c, month))
        /\ Lookup(f.expenses_by_category, c)
             = SumAmounts(expenses, Occurring(expenses, c, month))

\* C5: for every month and every pair of entry lists, the forecast built has
\* income_by_category[c] (expenses_by_category[c]) equal to the sum of the
\* amounts of the income (expense) entries of category c that occur in the
\* month; other entries and the entries of the other type contribute
\* nothing.
C5_ForecastSumsByCategory ==
    (ret.op = "get_monthly_forecast")
    => /\ ret.err = "none"
       /\ SumsByCategory(ret.value, ret.arg.month,
                         income_entries, expense_entries)

C5_Witness ==
    /\ ret.op = "get_monthly_forecast"
    /\ ret.err = "none"
    /\ Len(income_entries) = 2
    /\ income_entries[1].amount # income_entries[2].amount
    /\ \E c \in Categories :
          /\ Cardinality(Occurring(income_entries, c, ret.arg.month)) = 2
          /\ ret.value.income_by_category[c] = 350
    /\ DOMAIN ret.value.expenses_by_category = {}

RECURSIVE SumOver(_, _)
SumOver(d, cs) ==
    IF cs = {} THEN 0
    ELSE LET c == CHOOSE x \in cs : TRUE
         IN  Lookup(d, c) + SumOver(d, cs \ {c})

\* C6: for every computed MonthlyForecast, total_income is the sum of the
\* values of income_by_category, total_expenses the sum of the values of
\* expenses_by_category (0 for an empty mapping), and balance is
\* total_income - total_expenses.
C6_BalanceAdditive ==
    (ret.op = "get_balance")
    => /\ ret.err = "none"
       /\ ret.value.total_income
            = SumOver(ret.arg.self.income_by_category, AllCategories)
       /\ ret.value.total_expenses
            = SumOver(ret.arg.self.expenses_by_category, AllCategories)
       /\ ret.value.balance
            = ret.value.total_income - ret.value.total_expenses
       /\ (DOMAIN ret.arg.self.income_by_category = {}
            => ret.value.total_income = 0)
       /\ (DOMAIN ret.arg.self.expenses_by_category = {}
            => ret.value.total_expenses = 0)

C6_Witness ==
    /\ ret.op = "get_balance"
    /\ ret.err = "none"
    /\ Cardinality(DOMAIN ret.arg.self.income_by_category) = 1
    /\ Cardinality(DOMAIN ret.arg.self.expenses_by_category) = 1
    /\ ret.value.total_income = 100
    /\ ret.value.total_expenses = 250
    /\ ret.value.balance = 0 - 150

\* C13: get_forecast_for_next_n_months(n) with n <= 0 fails with the error
\* of its argument check (AssertionError, "n must be a positive integer"),
\* returns no forecast mapping, and leaves the entry lists and the category
\* sets unchanged.
C13_NonPositiveNFails ==
    [][(call.op = "get_forecast_for_next_n_months" /\ call.arg.n <= 0)
       => /\ ret'.op = "get_forecast_for_next_n_months"
          /\ ret'.arg.n = call.arg.n
          /\ ret'.err = "AssertionError"
          /\ ret'.value = "none"
          /\ entries' = entries
          /\ categories' = categories]_vars

\* The call with n = -1 on a state that holds entries has failed.
C13_Witness ==
    /\ ret.op = "get_forecast_for_next_n_months"
    /\ ret.arg.n = 0 - 1
    /\ ret.err = "AssertionError"
    /\ income_entries # <<>>
    /\ expense_entries # <<>>

\* The categories of the entries of the list that occur in the month.
OccurringCategories(entry_list, month) ==
    {c \in AllCategories : Occurring(entry_list, c, month) # {}}

\* C15: in every forecast computed, a category is a key of
\* income_by_category (expenses_by_category) exactly when at least one
\* income (expense) entry of that category occurs in the month; a category
\* none of whose entries occurs is absent, not present with value 0.
C15_KeysAreOccurringCategories ==
    (ret.op = "get_monthly_forecast")
    => /\ ret.err = "none"
       /\ DOMAIN ret.value.income_by_category
            = OccurringCategories(income_entries, ret.arg.month)
       /\ DOMAIN ret.value.expenses_by_category
            = OccurringCategories(expense_entries, ret.arg.month)

\* Two income entries of different categories, one occurring in the month
\* and one not: only the category of the first is a key.
C15_Witness ==
    /\ ret.op = "get_monthly_forecast"
    /\ ret.err = "none"
    /\ Len(income_entries) = 2
    /\ income_entries[1].category # income_entries[2].category
    /\ OccursIn(income_entries[1], ret.arg.month)
    /\ ~OccursIn(income_entries[2], ret.arg.month)
    /\ DOMAIN ret.value.income_by_category = {income_entries[1].category}

\* The positions of the entries of the list that occur in the month.
OccurringPositions(entry_list, month) ==
    {i \in 1..Len(entry_list) : OccursIn(entry_list[i], month)}

\* The k-th smallest member of a set of positions.
NthPosition(positions, k) ==
    CHOOSE i \in positions : Cardinality({j \in positions : j < i}) = k - 1

Pad2(n) == IF n < 10 THEN "0" \o ToString(n) ELSE ToString(n)

\* date.isoformat(): YYYY-MM-DD.
isoformat(d) ==
    ToString(d.year) \o "-" \o Pad2(d.month) \o "-" \o Pad2(d.day)

\* The dates and amounts a state file of the model can hold.
FileDates == {d \in Dates : d.day \in {1, 15, 31}}

FileAmounts == Amounts \cup {40}

\* date.fromisoformat(text): the date whose ISO text it is.
fromisoformat(text) == CHOOSE d \in FileDates : isoformat(d) = text

\* Decimal(text): the amount whose text it is.
DecimalFromText(text) == CHOOSE a \in FileAmounts : ToString(a) = text

\* A serialisation of an entry that writes null for every end date.
MutEntryJsonDropsEndDate(entry) ==
    [amount |-> ToString(entry.amount),
     description |-> entry.description,
     type |-> entry.type,
     category |-> entry.category,
     recurrence |->
        [start_date |-> isoformat(entry.recurrence.start_date),
         type |-> entry.recurrence.type,
         every |-> entry.recurrence.every,
         end_date |-> "null"]]

EntryToJson(entry) ==
    [amount |-> ToString(entry.amount),
     description |-> entry.description,
     type |-> entry.type,
     category |-> entry.category,
     recurrence |->
        [start_date |-> isoformat(entry.recurrence.start_date),
         type |-> entry.recurrence.type,
         every |-> entry.recurrence.every,
         end_date |-> IF entry.recurrence.end_date = NoDate THEN "null"
                      ELSE isoformat(entry.recurrence.end_date)]]

EntryFromJson(json) ==
    FinancialEntry(DecimalFromText(json.amount), json.description, json.type,
                   Recurrence(fromisoformat(json.recurrence.start_date),
                              json.recurrence.type, json.recurrence.every,
                              IF json.recurrence.end_date = "null" THEN NoDate
                              ELSE fromisoformat(json.recurrence.end_date)),
                   json.category)

\* The JSON document of a state.
StateToJson(all_entries, code) ==
    [all_entries |-> [t \in EntryType |->
        [i \in 1..Len(all_entries[t]) |-> EntryToJson(all_entries[t][i])]],
     currency_code |-> code]

\* A load that does not accept a document without currency_code.
MutLoadRequiresCurrency(f) ==
    IF ~f.exists THEN Raise("FileNotFoundError")
    ELSE IF "all_entries" \notin DOMAIN f.content
    THEN Raise("ValidationError")
    ELSE IF "currency_code" \notin DOMAIN f.content
    THEN Raise("ValidationError")
    ELSE LET loaded == [t \in EntryType |->
                 [i \in 1..Len(f.content.all_entries[t]) |->
                     EntryFromJson(f.content.all_entries[t][i])]]
         IN  Ok([entries |-> loaded,
                 categories |-> [t \in EntryType |-> CategoriesOf(loaded[t])],
                 currency_code |-> f.content.currency_code])

\* from_json_file(path): the state a file holds; a document without
\* currency_code gives the default currency, a document without
\* all_entries is rejected.
from_json_file(f) ==
    IF ~f.exists THEN Raise("FileNotFoundError")
    ELSE IF "all_entries" \notin DOMAIN f.content
    THEN Raise("ValidationError")
    ELSE LET loaded == [t \in EntryType |->
                 [i \in 1..Len(f.content.all_entries[t]) |->
                     EntryFromJson(f.content.all_entries[t][i])]]
         IN  Ok([entries |-> loaded,
                 categories |-> [t \in EntryType |-> CategoriesOf(loaded[t])],
                 currency_code |->
                     IF "currency_code" \in DOMAIN f.content
                     THEN f.content.currency_code
                     ELSE DefaultCurrencyCode])

\* The modes open(path, "w") can give a file it creates: 0666 less the
\* umask of the process (022 or 077).
CreateModes == {"0644", "0600"}

GroupOrOtherReadable(mode) == mode \in {"0644"}

\* to_json_file, first step: open(path, "w") creates the file or truncates
\* it, keeping the mode of a file that exists, and the document is written.
\* The chmod is still to come.
WriteStateFile(caller) ==
    /\ \E created \in CreateModes :
          file' = [exists |-> TRUE,
                   content |-> StateToJson(entries', currency_code'),
                   mode |-> IF file.exists THEN file.mode ELSE created]
    /\ call' = [op |-> "os.chmod", arg |-> [caller |-> caller]]

\* to_json_file, second step: os.chmod(path, 0o600); the caller notifies.
OsChmod ==
    /\ call.op = "os.chmod"
    /\ file' = [file EXCEPT !.mode = "0600"]
    /\ call' = NoCall
    /\ ret' = Return(call.arg.caller, [state_file |-> "state.json"],
                     Ok(IF call.arg.caller = "BudgetApp.__init__"
                        THEN "created" ELSE "saved"))
    /\ UNCHANGED <<entries, categories, modal, currency_code>>

(***************************************************************************)
(* FinancialState: the mutations.  The entries screen is modal: while the  *)
(* update form is open (modal # NoModal) only the form acts.               *)
(***************************************************************************)
NoModalOpen == modal = NoModal

Size == Len(income_entries) + Len(expense_entries)

\* A removal that takes the last item equal to x instead of the first.
MutRemoveLastEqual(entry_list, x) ==
    LET i == CHOOSE j \in 1..Len(entry_list) :
                 /\ entry_list[j] = x
                 /\ \A k \in (j + 1)..Len(entry_list) : entry_list[k] # x
    IN  SubSeq(entry_list, 1, i - 1) \o SubSeq(entry_list, i + 1, Len(entry_list))

\* list.remove(x): the list without its first item equal to x.
RemoveFirst(entry_list, x) ==
    LET i == CHOOSE j \in 1..Len(entry_list) :
                 /\ entry_list[j] = x
                 /\ \A k \in 1..(j - 1) : entry_list[k] # x
    IN  SubSeq(entry_list, 1, i - 1) \o SubSeq(entry_list, i + 1, Len(entry_list))

Contains(entry_list, x) == \E j \in 1..Len(entry_list) : entry_list[j] = x

MutAddEntryPrepends(entry) ==
    /\ NoModalOpen
    /\ categories' = [categories EXCEPT ![entry.type] = @ \cup {entry.category}]
    /\ entries' = [entries EXCEPT ![entry.type] = <<entry>> \o @]
    /\ ret' = Return("add_entry", [entry |-> entry], Ok("none"))
    /\ UNCHANGED <<modal, call>>
    /\ UNCHANGED <<currency_code, file>>

\* An add_entry that also saves the state to the file.
MutAddEntryAutoSaves(entry) ==
    /\ NoModalOpen
    /\ categories' = [categories EXCEPT ![entry.type] = @ \cup {entry.category}]
    /\ entries' = [entries EXCEPT ![entry.type] = Append(@, entry)]
    /\ ret' = Return("add_entry", [entry |-> entry], Ok("none"))
    /\ file' = [exists |-> TRUE,
                content |-> StateToJson(entries', currency_code),
                mode |-> "0600"]
    /\ UNCHANGED <<modal, call, currency_code>>

add_entry(entry) ==
    /\ NoModalOpen
    /\ categories' = [categories EXCEPT ![entry.type] = @ \cup {entry.category}]
    /\ entries' = [entries EXCEPT ![entry.type] = Append(@, entry)]
    /\ ret' = Return("add_entry", [entry |-> entry], Ok("none"))
    /\ UNCHANGED <<modal, call>>
    /\ UNCHANGED <<currency_code, file>>

\* add_category(entry_type, category): the category joins the set of the
\* type; the entry lists are not involved.
add_category(entry_type, category) ==
    /\ NoModalOpen
    /\ categories' = [categories EXCEPT ![entry_type] = @ \cup {category}]
    /\ ret' = Return("add_category",
                     [entry_type |-> entry_type, category |-> category],
                     Ok("none"))
    /\ UNCHANGED <<entries, modal, call>>
    /\ UNCHANGED <<currency_code, file>>

\* A removal that, when no equal entry is held, silently drops the last
\* entry of the list.
MutRemoveAbsentDropsLast(entry) ==
    /\ NoModalOpen
    /\ IF Contains(entries[entry.type], entry)
       THEN entries' = [entries EXCEPT ![entry.type] = RemoveFirst(@, entry)]
       ELSE entries' = [entries EXCEPT
                           ![entry.type] = SubSeq(@, 1, Len(@) - 1)]
    /\ ret' = Return("remove_entry", [entry |-> entry], Ok("none"))
    /\ UNCHANGED <<categories, modal, call>>
    /\ UNCHANGED <<currency_code, file>>

\* A removal that also drops the categories no remaining entry of the type
\* has.
MutRemoveEntryPrunesCategories(entry) ==
    /\ NoModalOpen
    /\ IF Contains(entries[entry.type], entry)
       THEN /\ entries' = [entries EXCEPT
                              ![entry.type] = RemoveFirst(@, entry)]
            /\ ret' = Return("remove_entry", [entry |-> entry], Ok("none"))
       ELSE /\ entries' = entries
            /\ ret' = Return("remove_entry", [entry |-> entry],
                             Raise("ValueError"))
    /\ categories' = [categories EXCEPT ![entry.type] =
                         {c \in @ : \E i \in 1..Len(entries'[entry.type]) :
                                       entries'[entry.type][i].category = c}]
    /\ UNCHANGED <<modal, call>>
    /\ UNCHANGED <<currency_code, file>>

remove_entry(entry) ==
    /\ NoModalOpen
    /\ IF Contains(entries[entry.type], entry)
       THEN /\ entries' = [entries EXCEPT
                              ![entry.type] = RemoveFirst(@, entry)]
            /\ ret' = Return("remove_entry", [entry |-> entry], Ok("none"))
       ELSE /\ entries' = entries
            /\ ret' = Return("remove_entry", [entry |-> entry],
                             Raise("ValueError"))
    /\ UNCHANGED <<categories, modal, call>>
    /\ UNCHANGED <<currency_code, file>>

(***************************************************************************)
(* FinancialEntriesScreen and UpdateFinancialEntryModal.                   *)
(***************************************************************************)
\* The rows of a table: one per entry, or the one "No entries yet" row.
TableRows(entry_list) ==
    0..((IF entry_list = <<>> THEN 1 ELSE Len(entry_list)) - 1)

\* _sync_table_entries: the placeholder row for an empty list; for each
\* entry a row that reads entry.recurrence.description, an attribute
\* Recurrence does not have.
sync_table_entries(entry_list) ==
    IF entry_list = <<>> THEN Ok("none") ELSE Raise("AttributeError")

sync_tables(expenses, incomes) ==
    LET e == sync_table_entries(expenses)
    IN  IF e.err # "none" THEN e ELSE sync_table_entries(incomes)

\* The values a user types in the form.
FormValues ==
    [description : {"edited"}, amount : {40}, category : FormCategories,
     recurrence_type : {"MONTHLY"}, start_date : {Date(2024, 1, 31)},
     every : {0, 1}]

\* Both row handlers read and write state.expense_entries.
RowSelected(handler, cursor_row) ==
    /\ NoModalOpen
    /\ IF cursor_row < Len(expense_entries)
       THEN /\ modal' = [handler |-> handler, cursor_row |-> cursor_row,
                         entry |-> expense_entries[cursor_row + 1]]
            /\ ret' = Return(handler, [cursor_row |-> cursor_row],
                             Ok("push_screen_wait"))
       ELSE /\ modal' = modal
            /\ ret' = Return(handler, [cursor_row |-> cursor_row],
                             Raise("IndexError"))
    /\ UNCHANGED <<entries, categories, call>>
    /\ UNCHANGED <<currency_code, file>>

on_expense_row_selected ==
    \E cursor_row \in TableRows(expense_entries) :
        RowSelected("on_expense_row_selected", cursor_row)

\* An income handler that opens the form on the income entry of the row,
\* while the save still writes the expense list.
MutIncomeRowReadsIncomeList ==
    \E cursor_row \in TableRows(income_entries) :
        /\ NoModalOpen
        /\ IF cursor_row < Len(income_entries)
           THEN /\ modal' = [handler |-> "on_income_row_selected",
                             cursor_row |-> cursor_row,
                             entry |-> income_entries[cursor_row + 1]]
                /\ ret' = Return("on_income_row_selected",
                                 [cursor_row |-> cursor_row],
                                 Ok("push_screen_wait"))
           ELSE /\ modal' = modal
                /\ ret' = Return("on_income_row_selected",
                                 [cursor_row |-> cursor_row],
                                 Raise("IndexError"))
        /\ UNCHANGED <<entries, categories, call>>
        /\ UNCHANGED <<currency_code, file>>

on_income_row_selected ==
    \E cursor_row \in TableRows(income_entries) :
        RowSelected("on_income_row_selected", cursor_row)

\* Save: the form builds the entry and dismisses with it; the handler
\* waiting on the form stores it at the selected row and syncs the tables.
on_save(values) ==
    /\ ~NoModalOpen
    /\ LET entry == FinancialEntry(values.amount, values.description,
                                   modal.entry.type,
                                   Recurrence(values.start_date,
                                              values.recurrence_type,
                                              values.every, NoDate),
                                   values.category)
           updated == [expense_entries EXCEPT ![modal.cursor_row + 1] = entry]
       IN  IF modal.handler = "run_add_modal_entry"
           THEN /\ categories' = [categories EXCEPT
                                      ![entry.type] = @ \cup {entry.category}]
                /\ entries' = [entries EXCEPT ![entry.type] = Append(@, entry)]
                /\ ret' = Return(modal.handler,
                                 [cursor_row |-> modal.cursor_row,
                                  new_entry |-> entry],
                                 Ok("none"))
           ELSE /\ categories' = categories
                /\ entries' = [entries EXCEPT !["EXPENSE"] = updated]
                /\ ret' = Return(modal.handler,
                                 [cursor_row |-> modal.cursor_row,
                                  new_entry |-> entry],
                                 sync_tables(updated, income_entries))
    /\ modal' = NoModal
    /\ UNCHANGED call
    /\ UNCHANGED <<currency_code, file>>

\* A cancel that deletes the entry the form was opened on.
MutCancelDeletesEntry ==
    /\ ~NoModalOpen
    /\ ret' = Return(modal.handler, [cursor_row |-> modal.cursor_row],
                     Ok("none"))
    /\ entries' = [entries EXCEPT !["EXPENSE"] =
                       SubSeq(@, 1, modal.cursor_row)
                       \o SubSeq(@, modal.cursor_row + 2, Len(@))]
    /\ modal' = NoModal
    /\ UNCHANGED <<categories, call>>
    /\ UNCHANGED <<currency_code, file>>

\* Cancel: the form dismisses with None and the handler does nothing.
on_cancel ==
    /\ ~NoModalOpen
    /\ ret' = Return(modal.handler, [cursor_row |-> modal.cursor_row],
                     Ok("none"))
    /\ modal' = NoModal
    /\ UNCHANGED <<entries, categories, call>>
    /\ UNCHANGED <<currency_code, file>>

\* Escape on the form is bound to app.pop_screen: the form is removed
\* without a result and the handler waiting on it does not resume.
pop_screen ==
    /\ ~NoModalOpen
    /\ ret' = Return(modal.handler, [cursor_row |-> modal.cursor_row],
                     Ok("pop_screen"))
    /\ modal' = NoModal
    /\ UNCHANGED <<entries, categories, call>>
    /\ UNCHANGED <<currency_code, file>>

\* The fields of FinancialEntry: none of them has a default.
RequiredFields == {"amount", "description", "type", "recurrence", "category"}

\* FinancialEntry(**given): validation fails when a field is missing.
NewFinancialEntry(given) ==
    IF RequiredFields \subseteq DOMAIN given
    THEN Ok(given)
    ELSE Raise("ValidationError")

\* The form is opened on FinancialEntry(type=entry_type); the entry it
\* returns, if any, is added with add_entry (see on_save).
run_add_modal_entry(entry_type) ==
    /\ NoModalOpen
    /\ LET built == NewFinancialEntry([type |-> entry_type])
       IN  IF built.err = "none"
           THEN /\ modal' = [handler |-> "run_add_modal_entry",
                             cursor_row |-> 0, entry |-> built.value]
                /\ ret' = Return("run_add_modal_entry",
                                 [entry_type |-> entry_type],
                                 Ok("push_screen_wait"))
           ELSE /\ modal' = modal
                /\ ret' = Return("run_add_modal_entry",
                                 [entry_type |-> entry_type], built)
    /\ UNCHANGED <<entries, categories, call>>
    /\ UNCHANGED <<currency_code, file>>

action_add_expense == run_add_modal_entry("EXPENSE")

action_add_income == run_add_modal_entry("INCOME")

(***************************************************************************)
(* The application: every operation on the state, in any order.            *)
(***************************************************************************)
StateQueryMonths == {Date(2024, m, 1) : m \in {1, 2, 3}} \cup {Date(2025, 3, 1)}

GetMonthlyForecast ==
    /\ NoModalOpen
    /\ \E month \in StateQueryMonths : DoGetMonthlyForecast(month)
    /\ UNCHANGED call

\* The entries callers add: 100 every second month, or 250 once.
StateEntries(type) ==
    {e \in ApiEntries(type) : (e.amount = 100) <=> (e.recurrence.type = "MONTHLY")}

AddEntry ==
    /\ Size < MaxEntries
    /\ \E t \in EntryType : \E entry \in StateEntries(t) : add_entry(entry)

\* The entries callers remove: any entry held, or one of those they add.
RemoveEntry ==
    \E t \in EntryType :
        \E entry \in StateEntries(t) \cup {entries[t][i] : i \in 1..Len(entries[t])} :
            remove_entry(entry)

AddCategory ==
    \E t \in EntryType : \E category \in Categories : add_category(t, category)

OnSave == \E values \in FormValues : on_save(values)

Next ==
    \/ AddEntry
    \/ RemoveEntry
    \/ AddCategory
    \/ GetMonthlyForecast
    \/ on_expense_row_selected
    \/ on_income_row_selected
    \/ OnSave
    \/ on_cancel
    \/ pop_screen
    \/ action_add_expense
    \/ action_add_income

Spec == Init /\ [][Next]_vars

AllHeld == UNION {{entries[t][i] : i \in 1..Len(entries[t])} : t \in EntryType}

\* A step of add_entry: the only operation that returns as add_entry.
AddEntryStep == ret'.op = "add_entry"

Signed(entry) ==
    IF entry.type = "INCOME" THEN entry.amount ELSE 0 - entry.amount

\* A forecast read returns the sums over the entries held at the read; it
\* fails only on a held MONTHLY entry whose every is 0.
ForecastReadIsCurrent ==
    (ret.op = "get_monthly_forecast")
    => IF ret.err = "none"
       THEN SumsByCategory(ret.value, ret.arg.month,
                           income_entries, expense_entries)
       ELSE \E e \in AllHeld :
                e.recurrence.type = "MONTHLY" /\ e.recurrence.every = 0

\* add_entry(e) moves the balance of each month in which e occurs by the
\* amount of e, up for an income and down for an expense, and leaves the
\* forecast of every other month as it was.
AddEntryShiftsBalance ==
    AddEntryStep
    => \A m \in StateQueryMonths :
        \A before \in {get_monthly_forecast(m)} :
        \A after \in {get_monthly_forecast(m)'} :
        \A e \in {ret'.arg.entry} :
            (before.err = "none" /\ after.err = "none")
            => IF OccursIn(e, m)
               THEN get_balance(after.value).balance
                        = get_balance(before.value).balance + Signed(e)
               ELSE after.value = before.value

GetMonthlyForecastStep == ret'.op = "get_monthly_forecast"

\* C14: get_monthly_forecast(m) changes neither the entry lists nor the
\* category sets, and a second get_monthly_forecast(m) made right after the
\* first, with no mutation in between, returns a forecast equal to the one
\* the first returned.
C14_ForecastReadPure ==
    [][GetMonthlyForecastStep
       => /\ entries' = entries
          /\ categories' = categories
          /\ \A m \in {ret'.arg.month} :
             \A second \in {get_monthly_forecast(m)'} :
                /\ second.err = ret'.err
                /\ second.value = ret'.value]_vars

\* A forecast was read from a state holding an income and an expense that
\* both occur in the month.
C14_Witness ==
    /\ ret.op = "get_monthly_forecast"
    /\ ret.err = "none"
    /\ DOMAIN ret.value.income_by_category # {}
    /\ DOMAIN ret.value.expenses_by_category # {}
    /\ categories["INCOME"] # {}
    /\ categories["EXPENSE"] # {}

\* C8: in every state reached through add_entry, remove_entry and the
\* update of the entries screen, the category of every entry held for a
\* type is a member of the category set of that type.
C8_CategoryIndexConsistent ==
    \A t \in EntryType :
        \A i \in 1..Len(entries[t]) : entries[t][i].category \in categories[t]

\* C9: every entry held has a recurrence with every >= 1, also an entry
\* built from the values typed in the update form.
C9_EveryAtLeastOne ==
    \A e \in AllHeld : e.recurrence.every >= 1

Other(t) == IF t = "INCOME" THEN "EXPENSE" ELSE "INCOME"

AddEntryFrame ==
    AddEntryStep
    => LET e == ret'.arg.entry
           t == e.type
           n == Len(entries[t])
       IN  /\ Len(entries'[t]) = n + 1
           /\ \A i \in 1..n : entries'[t][i] = entries[t][i]
           /\ entries'[t][n + 1] = e
           /\ categories'[t] = categories[t] \cup {e.category}
           /\ (e.category \in categories[t] => categories'[t] = categories[t])
           /\ entries'[Other(t)] = entries[Other(t)]
           /\ categories'[Other(t)] = categories[Other(t)]

\* C10: add_entry(e) appends e at the end of the sequence of e.type, the
\* entries already held keeping their positions; it adds e.category to the
\* category set of e.type (no change when already a member) and leaves the
\* sequence and the category set of the other type unchanged.
C10_AddEntryAppends == [][AddEntryFrame]_vars

C10_Witness ==
    /\ ret.op = "add_entry"
    /\ LET t == ret.arg.entry.type
       IN  /\ Len(entries[t]) = 2
           /\ entries[t][2] = ret.arg.entry
           /\ entries[t][1] # entries[t][2]
           /\ entries[t][1].category = entries[t][2].category
           /\ Cardinality(categories[t]) = 2

\* C16 as stated: in every state reached through add_entry, remove_entry,
\* add_category and the update of the entries screen, the category set of
\* each type is exactly the set of the categories of the entries held for
\* that type.
C16_CategoriesRebuildable ==
    \A t \in EntryType : categories[t] = CategoriesOf(entries[t])

\* C16, amended: the category set of each type only grows.  add_entry(e)
\* adds e.category to the set of e.type, add_category(t, c) adds c to the
\* set of t, and no other operation (remove_entry, the update of the
\* entries screen, a read) changes a category set.
C16_CategoriesOnlyGrow ==
    [][\A t \in EntryType :
         /\ categories[t] \subseteq categories'[t]
         /\ (ret'.op = "add_entry" /\ ret'.arg.entry.type = t)
            => categories'[t] = categories[t] \cup {ret'.arg.entry.category}
         /\ (ret'.op = "add_category" /\ ret'.arg.entry_type = t)
            => categories'[t] = categories[t] \cup {ret'.arg.category}
         /\ (categories'[t] # categories[t])
            => \/ ret'.op = "add_entry" /\ ret'.arg.entry.type = t
               \/ ret'.op = "add_category" /\ ret'.arg.entry_type = t]_vars

\* The last entry of a type was removed and its category is still in the
\* set of the type.
C16_Witness ==
    /\ ret.op = "remove_entry"
    /\ ret.err = "none"
    /\ entries[ret.arg.entry.type] = <<>>
    /\ ret.arg.entry.category \in categories[ret.arg.entry.type]

\* A row of a table is selected while the list behind the table is empty
\* (the row is the "No entries yet" row).
RowSelectedOnEmptyList ==
    /\ modal = NoModal
    /\ \/ ret'.op = "on_expense_row_selected" /\ expense_entries = <<>>
       \/ ret'.op = "on_income_row_selected" /\ income_entries = <<>>

\* C22: selecting a row of an entries table whose list is empty raises no
\* error, leaves the entry lists and the category sets unchanged, and opens
\* no form: the application stays on the entries screen.
C22_EnterOnEmptyList ==
    [][RowSelectedOnEmptyList
       => /\ ret'.err = "none"
          /\ modal' = NoModal
          /\ entries' = entries
          /\ categories' = categories]_vars

\* The form is saved: the waiting row handler gets the edited entry.
FormSavedStep ==
    /\ modal # NoModal
    /\ modal.handler \in {"on_expense_row_selected", "on_income_row_selected"}
    /\ modal' = NoModal
    /\ "new_entry" \in DOMAIN ret'.arg

\* The type of the table a row handler belongs to.
TableType(handler) ==
    IF handler = "on_income_row_selected" THEN "INCOME" ELSE "EXPENSE"

\* C25: when row i of the table of type T is selected and the form is
\* saved, the entry at position i of the list of T is replaced by the
\* edited entry; the other positions of that list, its length and the list
\* of the other type are unchanged.
C25_UpdateReplacesAtPosition ==
    [][FormSavedStep
       => \A T \in {TableType(modal.handler)} :
          \A i \in {modal.cursor_row + 1} :
              /\ i \in 1..Len(entries[T])
              /\ entries'[T] = [entries[T] EXCEPT ![i] = ret'.arg.new_entry]
              /\ entries'[Other(T)] = entries[Other(T)]]_vars

\* One of the actions "add expense", "add income" runs.
AddActionStep == NoModalOpen /\ ret'.op = "run_add_modal_entry"

\* The form opened by an add action is saved.
AddFormSavedStep ==
    /\ modal # NoModal
    /\ modal.handler = "run_add_modal_entry"
    /\ "new_entry" \in DOMAIN ret'.arg

\* C26: the actions "add expense" and "add income" open the entry form
\* without an error, on an entry of the type of the action, and saving that
\* form appends exactly one entry, the one built by the form, to the list of
\* that type.
C26_AddOpensFormAndAppends ==
    [][/\ AddActionStep
          => /\ ret'.err = "none"
             /\ modal' # NoModal
             /\ modal'.handler = "run_add_modal_entry"
             /\ modal'.entry.type = ret'.arg.entry_type
       /\ AddFormSavedStep
          => \A t \in {modal.entry.type} :
                 /\ entries'[t] = Append(entries[t], ret'.arg.new_entry)
                 /\ entries'[Other(t)] = entries[Other(t)]]_vars

\* The form is closed without a result: Cancel, or Escape.
DialogCancelledStep ==
    /\ modal # NoModal
    /\ modal' = NoModal
    /\ "new_entry" \notin DOMAIN ret'.arg

\* C27: cancelling the entry form leaves the state as it was: the same
\* entry lists, the same category sets, and for every month the same
\* forecast as before the form was opened and cancelled.
C27_CancelChangesNothing ==
    [][DialogCancelledStep
       => /\ entries' = entries
          /\ categories' = categories
          /\ \A m \in StateQueryMonths :
             \A before \in {get_monthly_forecast(m)} :
             \A after \in {get_monthly_forecast(m)'} : after = before]_vars

\* The update form was opened on an entry and cancelled, in a state that
\* holds entries of both types.
C27_Witness ==
    /\ modal = NoModal
    /\ ret.op \in {"on_expense_row_selected", "on_income_row_selected"}
    /\ ret.err = "none"
    /\ ret.value = "none"
    /\ "new_entry" \notin DOMAIN ret.arg
    /\ expense_entries # <<>>
    /\ income_entries # <<>>

\* C29: in every state reached through add_entry, remove_entry and the
\* update of the entries screen, every entry of the income list has type
\* INCOME and every entry of the expense list has type EXPENSE.
C29_TypeBuckets ==
    \A t \in EntryType :
        \A i \in 1..Len(entries[t]) : entries[t][i].type = t

\* An entry was updated through the income table while both lists hold
\* entries.
C29_Witness ==
    /\ ret.op = "on_income_row_selected"
    /\ "new_entry" \in DOMAIN ret.arg
    /\ income_entries # <<>>
    /\ expense_entries # <<>>

(***************************************************************************)
(* BudgetApp: the application started on a state file, the entries then    *)
(* changed and the state saved on request.                                 *)
(***************************************************************************)
StateFileArg == [state_file |-> "state.json"]

\* BudgetApp.__init__: the state is loaded from the file when it exists;
\* otherwise a new state is made and written to the file at once.
BudgetAppInit ==
    /\ call.op = "BudgetApp.__init__"
    /\ IF file.exists
       THEN LET loaded == from_json_file(file)
            IN  IF loaded.err = "none"
                THEN /\ entries' = loaded.value.entries
                     /\ categories' = loaded.value.categories
                     /\ currency_code' = loaded.value.currency_code
                     /\ file' = file
                     /\ call' = NoCall
                     /\ ret' = Return("BudgetApp.__init__", StateFileArg,
                                      Ok("loaded"))
                ELSE /\ call' = [op |-> "exit", arg |-> StateFileArg]
                     /\ ret' = Return("BudgetApp.__init__", StateFileArg,
                                      loaded)
                     /\ UNCHANGED <<entries, categories, currency_code, file>>
       ELSE /\ entries' = [t \in EntryType |-> <<>>]
            /\ categories' = [t \in EntryType |-> {}]
            /\ currency_code' = DefaultCurrencyCode
            /\ WriteStateFile("BudgetApp.__init__")
            /\ ret' = Return("BudgetApp.__init__", StateFileArg,
                             Ok("writing"))
    /\ modal' = modal

\* action_save_state (ctrl+s): self.state.to_json_file(self.state_file).
action_save_state ==
    /\ call = NoCall
    /\ NoModalOpen
    /\ UNCHANGED <<entries, categories, modal, currency_code>>
    /\ WriteStateFile("action_save_state")
    /\ ret' = Return("action_save_state", StateFileArg, Ok("writing"))

CurrencyCodes == {"EUR", "USD"}

AppEntries(type) ==
    IF type = "INCOME"
    THEN {FinancialEntry(100, "entry", type,
                         Recurrence(Date(2024, 2, 1), "MONTHLY", 2,
                                    Date(2024, 6, 1)), "Food")}
    ELSE {FinancialEntry(250, "entry", type,
                         Recurrence(Date(2024, 3, 15), "ONE_TIME", 1, NoDate),
                         "Rent")}

\* The entries of the state files found at start: at most one per type.
StoredEntries ==
    {[t \in EntryType |-> IF t = "INCOME" THEN inc ELSE exp] :
        inc \in BoundedSeqs(AppEntries("INCOME"), 1),
        exp \in BoundedSeqs(AppEntries("EXPENSE"), 1)}

\* The documents of the state files found at start: written by this
\* program, or by a version of it that wrote no currency_code, or lacking
\* the entries.
StoredDocuments ==
    {StateToJson(es, code) : es \in StoredEntries, code \in CurrencyCodes}
    \cup {[all_entries |-> StateToJson(es, DefaultCurrencyCode).all_entries] :
             es \in StoredEntries}
    \cup {[currency_code |-> "USD"]}

InitApp ==
    /\ EmptyState
    /\ currency_code = DefaultCurrencyCode
    /\ modal = NoModal
    /\ ret = NoRet
    /\ call = [op |-> "BudgetApp.__init__", arg |-> StateFileArg]
    /\ file \in {NoFile}
               \cup {[exists |-> TRUE, content |-> doc, mode |-> m] :
                        doc \in StoredDocuments, m \in {"0600", "0644"}}

AppIdle == call = NoCall

AppAddEntry ==
    /\ AppIdle
    /\ Size < MaxEntries
    /\ \E t \in EntryType : \E entry \in AppEntries(t) : add_entry(entry)

AppRemoveEntry ==
    /\ AppIdle
    /\ \E entry \in AllHeld : remove_entry(entry)

AppGetMonthlyForecast ==
    /\ AppIdle
    /\ NoModalOpen
    /\ DoGetMonthlyForecast(Date(2024, 3, 1))
    /\ UNCHANGED call

AppRowSelected == AppIdle /\ on_expense_row_selected

AppOnSave ==
    /\ AppIdle
    /\ \E values \in {v \in FormValues : v.every = 1 /\ v.category = "Fun"} :
          on_save(values)

AppOnCancel == AppIdle /\ on_cancel

NextApp ==
    \/ BudgetAppInit
    \/ OsChmod
    \/ action_save_state
    \/ AppAddEntry
    \/ AppRemoveEntry
    \/ AppGetMonthlyForecast
    \/ AppRowSelected
    \/ AppOnSave
    \/ AppOnCancel

SpecApp == InitApp /\ [][NextApp]_vars

\* A step of to_json_file, or any step that changes the file.
FileWriteStep == file' # file \/ call'.op = "os.chmod"

SaveActionStep ==
    \/ call'.op = "os.chmod" /\ call'.arg.caller = "action_save_state"
    \/ call.op = "os.chmod" /\ call.arg.caller = "action_save_state"

\* C17 as stated: the state file is written only by the save action;
\* creating or loading the state at start, add_entry, remove_entry, the
\* update of an entry and a forecast never write it.
C17_WrittenOnlyBySave == [][FileWriteStep => SaveActionStep]_vars

\* C17, amended: the state file is written only by the save action and, at
\* the start of the application, when the state file does not exist (the
\* new empty state is written to it at once); loading an existing file,
\* add_entry, remove_entry, the update of an entry and a forecast never
\* write it.
C17_WrittenBySaveOrFirstStart ==
    [][FileWriteStep
       => \/ SaveActionStep
          \/ call.op = "BudgetApp.__init__" /\ ~file.exists
          \/ call.op = "os.chmod" /\ call.arg.caller = "BudgetApp.__init__"]_vars

\* The application was started without a state file: the file now exists
\* and holds the empty state, and no save was requested.
C17_Witness ==
    /\ ret.op = "BudgetApp.__init__"
    /\ ret.value = "created"
    /\ file.exists
    /\ file.content = StateToJson([t \in EntryType |-> <<>>],
                                  DefaultCurrencyCode)

SavedOrCreated ==
    /\ call = NoCall
    /\ \/ ret.op = "action_save_state" /\ ret.value = "saved"
       \/ ret.op = "BudgetApp.__init__" /\ ret.value = "created"

C19_RoundTrip ==
    SavedOrCreated
    => \A loaded \in {from_json_file(file)} :
          /\ loaded.err = "none"
          /\ loaded.value.entries = entries
          /\ loaded.value.currency_code = currency_code

\* A state in US dollars was saved that holds an income with an end date
\* and an expense edited in the form.
C19_Witness ==
    /\ SavedOrCreated
    /\ ret.op = "action_save_state"
    /\ currency_code = "USD"
    /\ Len(income_entries) = 1
    /\ income_entries[1].recurrence.end_date # NoDate
    /\ Len(expense_entries) = 1
    /\ expense_entries[1].description = "edited"

\* C20: from_json_file of a file whose document has all_entries and no
\* currency_code succeeds and gives a state with currency_code "EUR"; a
\* newly created FinancialState has currency_code "EUR" too.
C20_DefaultCurrency ==
    /\ (/\ ret.op = "BudgetApp.__init__"
        /\ file.exists
        /\ "all_entries" \in DOMAIN file.content
        /\ "currency_code" \notin DOMAIN file.content)
       => /\ ret.err = "none"
          /\ ret.value = "loaded"
          /\ currency_code = "EUR"
    /\ (ret.op = "BudgetApp.__init__" /\ ret.value \in {"writing", "created"})
       => currency_code = "EUR"

\* A file without currency_code that holds two entries was loaded.
C20_Witness ==
    /\ ret.op = "BudgetApp.__init__"
    /\ ret.value = "loaded"
    /\ "currency_code" \notin DOMAIN file.content
    /\ Len(income_entries) = 1
    /\ Len(expense_entries) = 1
    /\ currency_code = "EUR"

(***************************************************************************)
(* remove_entry applied once to every pair of entry lists of the model,    *)
(* lists long enough to hold an entry between two equal ones.              *)
(***************************************************************************)
\* A caller about to run add_entry(e) and then remove_entry(e), with the
\* entry lists as they are before the pair.
AddThenRemove(before) ==
    [op |-> "add_entry, remove_entry", arg |-> [before |-> before]]

InitEntries ==
    /\ \E inc \in BoundedSeqs(StateEntries("INCOME"), MaxHeld),
          exp \in BoundedSeqs(StateEntries("EXPENSE"), MaxHeld) :
          /\ Len(inc) + Len(exp) <= MaxHeld
          /\ entries = [t \in EntryType |-> IF t = "INCOME" THEN inc ELSE exp]
          /\ categories = [t \in EntryType |->
                             CategoriesOf(IF t = "INCOME" THEN inc ELSE exp)]
    /\ modal = NoModal
    /\ call \in {NoCall, AddThenRemove(entries)}
    /\ ret = NoRet
    /\ currency_code = DefaultCurrencyCode
    /\ file = NoFile

RemoveEntryOnce ==
    /\ call = NoCall
    /\ ret = NoRet
    /\ \E t \in EntryType : \E entry \in StateEntries(t) : remove_entry(entry)

\* The first call of the pair: add_entry(e).
AddEntryOnce ==
    /\ call.op = "add_entry, remove_entry"
    /\ ret = NoRet
    /\ Size < MaxHeld
    /\ \E t \in EntryType : \E entry \in StateEntries(t) : add_entry(entry)

\* The second call of the pair: remove_entry(e) of the entry just added.
RemoveEntryAdded ==
    /\ call.op = "add_entry, remove_entry"
    /\ ret.op = "add_entry"
    /\ remove_entry(ret.arg.entry)

NextEntries ==
    \/ RemoveEntryOnce
    \/ AddEntryOnce
    \/ RemoveEntryAdded

SpecEntries == InitEntries /\ [][NextEntries]_vars

RemoveEntryStep == ret'.op = "remove_entry"

\* The position of the first item of entry_list equal to x.
FirstIndex(entry_list, x) ==
    CHOOSE j \in 1..Len(entry_list) :
        /\ entry_list[j] = x
        /\ \A k \in 1..(j - 1) : entry_list[k] # x

\* C11: remove_entry(e), when an entry equal to e is held in the list of
\* e.type, removes exactly one entry, the first equal one: the list is one
\* shorter, the entries before that position keep their places, the entries
\* after it (later equal ones included) move up by one in the same order,
\* and the list of the other type is unchanged.
C11_RemoveFirstOccurrence ==
    [][(RemoveEntryStep /\ Contains(entries[ret'.arg.entry.type], ret'.arg.entry))
       => \A e \in {ret'.arg.entry} :
          \A before \in {entries[e.type]} :
          \A after \in {entries'[e.type]} :
          \A i \in {FirstIndex(before, e)} :
              /\ ret'.err = "none"
              /\ Len(after) = Len(before) - 1
              /\ \A k \in 1..(i - 1) : after[k] = before[k]
              /\ \A k \in i..Len(after) : after[k] = before[k + 1]
              /\ entries'[Other(e.type)] = entries[Other(e.type)]]_vars

\* After removing e from <<e, x, e>>: the list is <<x, e>>, the later
\* equal entry still held behind x.
C11_Witness ==
    /\ ret.op = "remove_entry"
    /\ ret.err = "none"
    /\ \E t \in EntryType :
          /\ Len(entries[t]) = 2
          /\ entries[t][2] = ret.arg.entry
          /\ entries[t][1] # ret.arg.entry

\* C12: remove_entry(e), when no entry equal to e is held in the list of
\* e.type, always reports the same error (ValueError) and leaves both entry
\* lists and both category sets as they were; no entry of the other type is
\* removed.
C12_RemoveAbsent ==
    [][(RemoveEntryStep /\ ~Contains(entries[ret'.arg.entry.type], ret'.arg.entry))
       => /\ ret'.err = "ValueError"
          /\ entries' = entries
          /\ categories' = categories]_vars

\* A removal that failed while both lists hold entries.
C12_Witness ==
    /\ ret.op = "remove_entry"
    /\ ret.err = "ValueError"
    /\ income_entries # <<>>
    /\ expense_entries # <<>>

\* remove_entry(e) runs right after add_entry(e).
RemoveAddedStep ==
    /\ call.op = "add_entry, remove_entry"
    /\ ret.op = "add_entry"
    /\ ret'.op = "remove_entry"
    /\ ret'.arg.entry = ret.arg.entry

\* C28 as stated: add_entry(e) followed at once by remove_entry(e) leaves
\* both entry lists exactly as they were before the add, also when an entry
\* equal to e was already held.
C28_AddThenRemoveIsIdentity ==
    [][RemoveAddedStep => entries' = call.arg.before]_vars

\* C28, amended: add_entry(e) followed at once by remove_entry(e) raises no
\* error and leaves the list of the other type as it was before the add.
\* When no entry equal to e was held before, the list of e.type is also
\* exactly as before. When one was held, the list of e.type is the list
\* before the add without its first entry equal to e and with e at the
\* end: the same entries, the ones behind that first copy moved up by one.
C28_AddThenRemove ==
    [][RemoveAddedStep
       => \A e \in {ret.arg.entry} :
          \A before \in {call.arg.before[e.type]} :
              /\ ret'.err = "none"
              /\ entries'[Other(e.type)] = call.arg.before[Other(e.type)]
              /\ IF Contains(before, e)
                 THEN \A i \in {FirstIndex(before, e)} :
                          entries'[e.type]
                              = SubSeq(before, 1, i - 1)
                                \o SubSeq(before, i + 1, Len(before))
                                \o <<e>>
                 ELSE entries'[e.type] = before]_vars

\* The pair add_entry(e), remove_entry(e) has run from lists that held an
\* entry equal to e in front of a different entry.
C28_Witness ==
    /\ call.op = "add_entry, remove_entry"
    /\ ret.op = "remove_entry"
    /\ \E i \in 1..Len(call.arg.before[ret.arg.entry.type]) :
       \E j \in (i + 1)..Len(call.arg.before[ret.arg.entry.type]) :
           /\ call.arg.before[ret.arg.entry.type][i] = ret.arg.entry
           /\ call.arg.before[ret.arg.entry.type][j] # ret.arg.entry

(***************************************************************************)
(* The recurrence predicate applied to every recurrence and target month   *)
(* of the model.                                                           *)
(***************************************************************************)
RecurrenceStarts == {d \in Dates : d.day \in {1, 31}}

AllRecurrences ==
    {Recurrence(s, t, e, n) : s \in RecurrenceStarts, t \in RecurrenceType,
                              e \in (0 - 1)..MaxEvery,
                              n \in {NoDate, Date(2024, 6, 1)}}

InitRecurrence ==
    /\ EmptyState
    /\ modal = NoModal
    /\ ret = NoRet
    /\ \E self \in AllRecurrences, month_date \in RecurrenceStarts :
          call = [op |-> "will_occur_on_month",
                  arg |-> [self |-> self, month_date |-> month_date]]
    /\ currency_code = DefaultCurrencyCode
    /\ file = NoFile

CallWillOccurOnMonth ==
    /\ call.op = "will_occur_on_month"
    /\ ret' = Return(call.op, call.arg,
                     will_occur_on_month(call.arg.self, call.arg.month_date))
    /\ call' = NoCall
    /\ UNCHANGED <<entries, categories, modal>>
    /\ UNCHANGED <<currency_code, file>>

NextRecurrence == CallWillOccurOnMonth

SpecRecurrence == InitRecurrence /\ [][NextRecurrence]_vars

WillOccurReturned == ret.op = "will_occur_on_month"

\* k divides a - b: a and b are congruent modulo k.
Congruent(a, b, k) == \E q \in (0 - 12)..12 : a - b = q * k

\* C2: for a MONTHLY recurrence with every = k >= 1, will_occur_on_month
\* returns true exactly when the target month number and the start month
\* number are congruent modulo k; with k = 1 it returns true for every month.
C2_MonthlyModular ==
    (WillOccurReturned /\ ret.arg.self.type = "MONTHLY"
        /\ ret.arg.self.every >= 1)
    => /\ ret.err = "none"
       /\ ret.value = Congruent(ret.arg.month_date.month,
                                ret.arg.self.start_date.month,
                                ret.arg.self.every)
       /\ (ret.arg.self.every = 1 => ret.value = TRUE)

C2_Witness ==
    /\ WillOccurReturned
    /\ ret.arg.self.type = "MONTHLY"
    /\ ret.arg.self.every = 3
    /\ ret.err = "none"
    /\ ret.value = TRUE
    /\ ret.arg.month_date.month # ret.arg.self.start_date.month
    /\ ret.arg.month_date.year < ret.arg.self.start_date.year

\* C3: for a ONE_TIME recurrence, will_occur_on_month returns true exactly
\* when the target has the year and the month of start_date, whatever the
\* days of month and the value of every.
C3_OneTimeExactMonth ==
    (WillOccurReturned /\ ret.arg.self.type = "ONE_TIME")
    => /\ ret.err = "none"
       /\ ret.value = (ret.arg.month_date.year = ret.arg.self.start_date.year
                       /\ ret.arg.month_date.month
                            = ret.arg.self.start_date.month)

C3_Witness ==
    /\ WillOccurReturned
    /\ ret.arg.self.type = "ONE_TIME"
    /\ ret.arg.self.every = 0
    /\ ret.arg.month_date.month = ret.arg.self.start_date.month
    /\ ret.arg.month_date.year # ret.arg.self.start_date.year
    /\ ret.arg.month_date.day # ret.arg.self.start_date.day
    /\ ret.err = "none"
    /\ ret.value = FALSE

\* C4: for an ANNUAL recurrence, will_occur_on_month returns true exactly
\* when the target month number is the start month number, in any target
\* year (also one before start_date) and for any value of every.
C4_AnnualMonthOnly ==
    (WillOccurReturned /\ ret.arg.self.type = "ANNUAL")
    => /\ ret.err = "none"
       /\ ret.value = (ret.arg.month_date.month
                        = ret.arg.self.start_date.month)

C4_Witness ==
    /\ WillOccurReturned
    /\ ret.arg.self.type = "ANNUAL"
    /\ ret.arg.self.every = 0
    /\ ret.arg.month_date.year < ret.arg.self.start_date.year
    /\ ret.err = "none"
    /\ ret.value = TRUE

\* The first day of the calendar month g months after the month of d.
MonthAfter(d, g) == Date(AddMonths(d, g).year, AddMonths(d, g).month, 1)

\* The recurrence occurs in the month of d.
OccursOn(self, d) ==
    will_occur_on_month(self, d).err = "none" /\ will_occur_on_month(self, d).value

\* The number of calendar months from the month of d to the next month in
\* which the recurrence occurs (13 when there is none within a year).
GapToNextOccurrence(self, d) ==
    IF \E g \in 1..12 : OccursOn(self, MonthAfter(d, g))
    THEN CHOOSE g \in 1..12 :
            /\ OccursOn(self, MonthAfter(d, g))
            /\ \A h \in 1..(g - 1) : ~OccursOn(self, MonthAfter(d, h))
    ELSE 13

\* C24: a MONTHLY recurrence with every = k >= 1 occurs in its start month,
\* and from any month in which it occurs the next month in which it occurs
\* is exactly k calendar months later, also when that month is in the next
\* year.
C24_MonthlySpacing ==
    (WillOccurReturned /\ ret.arg.self.type = "MONTHLY"
        /\ ret.arg.self.every >= 1)
    => /\ (/\ ret.arg.month_date.year = ret.arg.self.start_date.year
           /\ ret.arg.month_date.month = ret.arg.self.start_date.month)
          => (ret.err = "none" /\ ret.value = TRUE)
       /\ (ret.err = "none" /\ ret.value = TRUE)
          => GapToNextOccurrence(ret.arg.self, ret.arg.month_date)
                = ret.arg.self.every

\* The recurrence with the type, the every and the start month number of
\* self, and nothing else of it.
MonthNumbersOnly(self) ==
    Recurrence(Date(2023, self.start_date.month, 1), self.type, self.every,
               NoDate)

\* C30: for MONTHLY and ANNUAL recurrences the result of will_occur_on_month
\* depends only on the target month number, the start month number and
\* every: it is the result for the recurrence stripped of its start year,
\* start day and end_date, on the first day of the same month number of a
\* fixed year. Recurrences that differ only in start year, start day or
\* end_date, on targets that differ only in year or day, hence agree.
C30_MatchingIgnoresYearsAndEnd ==
    (WillOccurReturned /\ ret.arg.self.type \in {"MONTHLY", "ANNUAL"})
    => \A stripped \in {will_occur_on_month(
                            MonthNumbersOnly(ret.arg.self),
                            Date(2023, ret.arg.month_date.month, 1))} :
           /\ ret.err = stripped.err
           /\ ret.value = stripped.value

\* A recurrence every 2 months that started on a 31st in 2023 and ended in
\* June 2024 was found to occur in a month of 2025.
C30_Witness ==
    /\ WillOccurReturned
    /\ ret.arg.self.type = "MONTHLY"
    /\ ret.arg.self.every = 2
    /\ ret.arg.self.start_date.year = 2023
    /\ ret.arg.self.start_date.day = 31
    /\ ret.arg.self.end_date = Date(2024, 6, 1)
    /\ ret.arg.month_date.year = 2025
    /\ ret.err = "none"
    /\ ret.value = TRUE

====
